---- MODULE Spec2Model ----
(***************************************************************************)
(* A model of src/scraper/ashtadhyayi_scraper.py: the AshtadhyayiScraper   *)
(* object, the browser session it drives and the pages the site serves.    *)
(*                                                                         *)
(* Text is a sequence of one-character strings; an optional value (Python  *)
(* None or a value) is the empty sequence or a one-element sequence.       *)
(***************************************************************************)
EXTENDS Integers, Sequences, FiniteSets, TLC

VARIABLES
    entry_point,      \* the method the caller invoked on the scraper
    pc,               \* where that call stands
    outcome,          \* "none" while running, then "returned" or the exception
    limit,            \* self.limit (0 stands for None: both are falsy)
    driver,           \* self.driver: "None" or "session"
    sessions,         \* browser sessions open on the machine
    present,          \* anchors the listing page shows now
    driver_scrolls,   \* history: scroll commands the running _scroll_to_load_all sent
    fetched,          \* the detail urls the browser was sent to, in order
    launches,         \* history: webdriver.Chrome() calls
    navigations,      \* history: driver.get() calls
    max_scrolls,      \* _scroll_to_load_all: the argument
    last_count,       \* _scroll_to_load_all: local
    scroll_count,     \* _scroll_to_load_all: local
    no_change_count,  \* _scroll_to_load_all: local
    iters,            \* history: measurements taken by the loop
    prev_measured,    \* history: the previous measurement (0 before the first)
    since_increase,   \* history: measurements since the last one that grew
    decreased,        \* history: some measurement was below the one before it
    book_name,        \* scrape_book / _parse_entry_links: the book argument
    listing,          \* the listing page handed to the parser
    entries_data,     \* the result of _parse_entry_links
    i,                \* scrape_book: the loop index
    entries,          \* scrape_book: chapter.entries
    details,          \* history: the result of each _parse_detail_page call
    page,             \* the detail page being parsed, if it loaded
    detail,           \* the result of _parse_detail_page
    arg,              \* the argument of a direct call of a text function
    result,           \* what that call returned
    again,            \* what the function returned when run on its own result
    written,          \* save_to_markdown: the entry files written, in order
    index_paths       \* _create_readme: the path listed for each entry

scrollVars == <<max_scrolls, last_count, scroll_count, no_change_count>>
scrollHist == <<iters, prev_measured, since_increase, decreased>>
objVars    == <<limit, driver, sessions>>
browserVars == <<present, driver_scrolls, fetched>>
envHist    == <<launches, navigations>>
bookVars   == <<book_name, listing, entries_data, i, entries, details>>
detailVars == <<page, detail>>
textVars   == <<arg, result, again>>
saveVars   == <<written, index_paths>>
vars == <<entry_point, pc, outcome, limit, driver, sessions, present,
          driver_scrolls, fetched, launches, navigations, max_scrolls, last_count, scroll_count,
          no_change_count, iters, prev_measured, since_increase, decreased,
          book_name, listing, entries_data, i, entries, details, page, detail,
          arg, result, again, written, index_paths>>

(***************************************************************************)
(* Bounds of the model.                                                    *)
(***************************************************************************)
MaxItems == 2        \* a listing page holds 0..MaxItems nodes
MaxLimit == 2        \* self.limit ranges over None (0) and 1..MaxLimit
MaxScrollsArg == 7   \* max_scrolls ranges over 0..MaxScrollsArg in a direct call
MaxSegs == 4         \* a sutraani href has 1..MaxSegs segments after /sutraani
MaxRegions == 2      \* a detail page holds 0..MaxRegions commentary regions

(***************************************************************************)
(* Program constants.                                                      *)
(***************************************************************************)
StallThreshold == 5
DefaultMaxScrolls == 500

(***************************************************************************)
(* Python's str and list operations, on sequences of tokens.               *)
(***************************************************************************)
None == <<>>
Some(x) == <<x>>

Whitespace == {" ", "\n", "\t"}

StartsWith(s, p) == Len(s) >= Len(p) /\ SubSeq(s, 1, Len(p)) = p

RECURSIVE LStrip(_, _)
LStrip(s, cs) == IF s # <<>> /\ s[1] \in cs THEN LStrip(Tail(s), cs) ELSE s

RECURSIVE RStrip(_, _)
RStrip(s, cs) ==
    IF s # <<>> /\ s[Len(s)] \in cs THEN RStrip(SubSeq(s, 1, Len(s) - 1), cs)
    ELSE s

\* s.strip(cs); s.strip() is StripOf(s, Whitespace)
StripOf(s, cs) == RStrip(LStrip(s, cs), cs)
Strip(s) == StripOf(s, Whitespace)

\* s.split(c): always at least one part, empty parts kept
RECURSIVE SplitAcc(_, _, _)
SplitAcc(s, c, cur) ==
    IF s = <<>> THEN <<cur>>
    ELSE IF s[1] = c THEN <<cur>> \o SplitAcc(Tail(s), c, <<>>)
    ELSE SplitAcc(Tail(s), c, Append(cur, s[1]))
Split(s, c) == SplitAcc(s, c, <<>>)

Digits == {"0", "1", "2", "3", "4", "5", "6", "7", "8", "9"}

\* an integer test that passes every non-empty segment
IsInt_AnyNonEmpty(s) == s # <<>>

\* int(s) does not raise ValueError: an optional sign, then digits only
\* (over the tokens of the model: no blanks, no underscores)
IsInt(s) ==
    LET body == IF s # <<>> /\ s[1] \in {"+", "-"} THEN Tail(s) ELSE s
    IN  body # <<>> /\ \A k \in 1..Len(body) : body[k] \in Digits

\* the first place where sub occurs in s, 0 if none
FindFirst(s, sub) ==
    LET hits == {k \in 1..(Len(s) - Len(sub) + 1) :
                     SubSeq(s, k, k + Len(sub) - 1) = sub}
    IN  IF hits = {} THEN 0 ELSE CHOOSE k \in hits : \A h \in hits : k <= h

\* s.replace(sub, '', 1)
RemoveFirst(s, sub) ==
    LET k == FindFirst(s, sub)
    IN  IF sub = <<>> \/ k = 0 THEN s
        ELSE SubSeq(s, 1, k - 1) \o SubSeq(s, k + Len(sub), Len(s))

\* sub in s
Contains(s, sub) == sub = <<>> \/ FindFirst(s, sub) # 0

\* element.get_text(strip=True) of an element holding one string
GetTextStrip(t) == Strip(t)

RECURSIVE Flatten(_)
Flatten(ss) == IF ss = <<>> THEN <<>> ELSE ss[1] \o Flatten(Tail(ss))

(***************************************************************************)
(* BOOK_CONFIGS                                                            *)
(***************************************************************************)
BookNames == {"shivasutra", "sutraani", "dhatu", "pratyahara", "ganapatha",
              "unadipatha", "linganushasanam", "shiksha"}

BOOK_CONFIGS ==
    [b \in BookNames |->
        [has_infinite_scroll |->
             b \in {"sutraani", "dhatu", "ganapatha", "unadipatha"},
         organize_by |-> IF b = "sutraani" THEN "adhyaya_pada"
                         ELSE IF b = "dhatu" THEN "gana" ELSE "flat"]]

BASE_URL == <<"https://ashtadhyayi.com">>

(***************************************************************************)
(* The listing page. A node of the page is a record                        *)
(*   tag, class        the element's name and class list                   *)
(*   href              its own href attribute, if any                      *)
(*   in_content        it is inside #list-group-content                    *)
(*   link              the href of its first descendant a[href], if any    *)
(*   badge             the text of its badge element, if any               *)
(*   title_elem        the text of its title element, if any               *)
(*   kaumudi_elem      the text of its float-right element, if any         *)
(*   notes             the texts of its inline-note elements               *)
(*   siblings          the texts of the siblings up to the next anchor     *)
(*   own_text          the text it holds outside those sub-elements        *)
(*   in_item           it is inside a .list-group-item                     *)
(* A page rendered by a browser nests no anchor in an anchor: an "a" node  *)
(* has no link.                                                            *)
(***************************************************************************)
SutraPrefix == <<"/", "sutraani", "/">>
DhatuPrefix == <<"/", "dhatu", "/">>

\* the descendant anchor of a node, as an element of the page
AnchorOf(node) ==
    [tag |-> "a", class |-> {}, href |-> node.link, in_content |-> node.in_content,
     link |-> None, badge |-> None, title_elem |-> None, kaumudi_elem |-> None,
     notes |-> <<>>, siblings |-> <<>>, own_text |-> <<>>,
     in_item |-> "list-group-item" \in node.class]

\* the elements of the page in document order: each node, then its anchor
RECURSIVE Elements(_)
Elements(soup) ==
    IF soup = <<>> THEN <<>>
    ELSE (IF soup[1].link # None THEN <<soup[1], AnchorOf(soup[1])>>
          ELSE <<soup[1]>>) \o Elements(Tail(soup))

\* the selector _parse_entry_links uses for the book
Selected(e, book_type) ==
    IF book_type = "sutraani"
    THEN /\ e.tag = "a"
         /\ e.href # None
         /\ StartsWith(e.href[1], SutraPrefix)
         /\ ("d-block" \in e.class \/ "href" \in e.class)
    ELSE IF book_type = "dhatu"
    THEN e.tag = "a" /\ e.href # None /\ StartsWith(e.href[1], DhatuPrefix)
    ELSE e.in_content /\ "list-group-item" \in e.class

\* the selector _scroll_to_load_all counts: a[href].d-block, .list-group-item a[href]
Counted(e) ==
    /\ e.tag = "a"
    /\ e.href # None
    /\ ("d-block" \in e.class \/ e.in_item)

CountAnchors(soup) == Len(SelectSeq(Elements(soup), Counted))

(***************************************************************************)
(* _parse_single_entry                                                     *)
(***************************************************************************)
Dot == <<".">>

\* the sutraani branch, once the item is an anchor under /sutraani/
ParseSutraEntry(item) ==
    LET href == item.href[1]
        parts == Split(StripOf(href, {"/"}), "/")
    IN  IF Len(parts) # 4 THEN None
        ELSE IF ~(IsInt(parts[2]) /\ IsInt(parts[3]) /\ IsInt(parts[4]))
        THEN None
        ELSE
        LET adhyaya == parts[2]
            pada == parts[3]
            sutra_num == parts[4]
            number == IF item.badge # None THEN GetTextStrip(item.badge[1])
                      ELSE adhyaya \o Dot \o pada \o Dot \o sutra_num
            title0 == IF item.title_elem # None
                      THEN GetTextStrip(item.title_elem[1]) ELSE <<>>
            ktext == IF item.kaumudi_elem # None
                     THEN GetTextStrip(item.kaumudi_elem[1]) ELSE <<>>
            kaumudi == IF Contains(ktext, <<"kaumudi">>) THEN ktext ELSE <<>>
            full_text ==
                Flatten(<<IF item.badge # None
                              THEN GetTextStrip(item.badge[1]) ELSE <<>>,
                          Strip(item.own_text), title0, ktext>>)
            title == IF title0 # <<>> THEN title0
                     ELSE Strip(RemoveFirst(RemoveFirst(full_text, number),
                                            kaumudi))
            notes == SelectSeq([k \in 1..Len(item.siblings) |->
                                    GetTextStrip(item.siblings[k])],
                               LAMBDA t : StartsWith(t, <<"bullet">>))
        IN  Some([number |-> number, title |-> title,
                  url |-> BASE_URL \o href, notes |-> notes,
                  metadata |-> IF kaumudi # <<>>
                               THEN {<<"kaumudi", kaumudi>>} ELSE {},
                  adhyaya |-> Some(adhyaya), pada |-> Some(pada),
                  sutra |-> Some(sutra_num)])

\* the branch of the simple books
ParseFlatEntry(item) ==
    IF "bg-light" \in item.class THEN None
    ELSE IF item.link = None THEN None
    ELSE LET href == item.link[1] IN
    IF href = <<>> \/ href = <<"#">> THEN None
    ELSE
    LET number == IF item.badge # None THEN GetTextStrip(item.badge[1])
                  ELSE <<>>
        title == IF item.title_elem # None
                 THEN GetTextStrip(item.title_elem[1]) ELSE <<>>
        full_url == IF StartsWith(href, <<"/">>) THEN BASE_URL \o href
                    ELSE IF StartsWith(href, <<"http">>) THEN href
                    ELSE BASE_URL \o <<"/">> \o href
        stripped == [k \in 1..Len(item.notes) |-> GetTextStrip(item.notes[k])]
        notes == SelectSeq(stripped, LAMBDA t : t # <<>>)
    IN  Some([number |-> number, title |-> title, url |-> full_url,
              notes |-> notes, metadata |-> {},
              adhyaya |-> None, pada |-> None, sutra |-> None])

ParseSingleEntry(item, book_type) ==
    IF book_type = "sutraani"
    THEN IF /\ item.tag = "a"
            /\ StartsWith(IF item.href # None THEN item.href[1] ELSE <<>>,
                          SutraPrefix)
         THEN ParseSutraEntry(item)
         ELSE None
    ELSE ParseFlatEntry(item)

(***************************************************************************)
(* _parse_entry_links                                                      *)
(***************************************************************************)

\* a cap compared with > : one summary too many
LinksCapReached_OffByOne(results, lim) == lim # 0 /\ Len(results) > lim

\* if self.limit and len(results) >= self.limit: break
LinksCapReached(results, lim) == lim # 0 /\ Len(results) >= lim

\* the for loop over the selected items, from results so far
RECURSIVE EntryLoop(_, _, _, _)
EntryLoop(items, book_type, lim, results) ==
    IF items = <<>> THEN results
    ELSE LET entry_data == ParseSingleEntry(items[1], book_type) IN
         IF entry_data # None
         THEN LET r == Append(results, entry_data[1]) IN
              IF LinksCapReached(r, lim) THEN r
              ELSE EntryLoop(Tail(items), book_type, lim, r)
         ELSE EntryLoop(Tail(items), book_type, lim, results)

SelectItems(soup, book_type) ==
    SelectSeq(Elements(soup), LAMBDA e : Selected(e, book_type))

ParseEntryLinks(soup, book_type, lim) ==
    EntryLoop(SelectItems(soup, book_type), book_type, lim, <<>>)

(***************************************************************************)
(* _html_to_markdown. A markup fragment is a sequence of nodes, each a     *)
(* string of the fragment or an element holding one string:                *)
(*   kind   "text", or what the element is to the rewrite passes:          *)
(*          "prakriya" (.prakriya, .derivation, .prakriya-box),            *)
(*          "header" (.section-header, h3, h4, h5), "bold" (b, strong),    *)
(*          "fwbold" (.font-weight-bold), "italic" (i, em),                *)
(*          "br", "hr" (.section-separator, hr), "div" (div.mt-3, ...),    *)
(*          "a", "span" (any other element)                                *)
(*   text   the string                                                     *)
(*   href   the href attribute of an "a"                                   *)
(* "PARA" stands for the sentinel, "->" for the arrow, "|" and "||" for    *)
(* the danda and the double danda.                                         *)
(***************************************************************************)
PARA == "PARA"
Arrow == "->"
PARA_BREAK == <<"\n", "\n", PARA, "\n", "\n">>
LINE_BREAK == <<"\n">>
SpaceTab == {" ", "\t"}
Punctuation == {"|", "||", ",", ";", ":", "."}

RECURSIVE Join(_, _)
Join(parts, sep) ==
    IF parts = <<>> THEN <<>>
    ELSE IF Len(parts) = 1 THEN parts[1]
    ELSE parts[1] \o sep \o Join(Tail(parts), sep)

\* the string an element that no pass replaced leaves in the tree, if any
Untouched(node) == IF node.text = <<>> THEN None ELSE Some(node.text)

\* a quotation set apart as a paragraph, without the marker
QuoteText_NoMarker(text) == PARA_BREAK \o text \o PARA_BREAK

\* f"{PARA_BREAK}> {text}{PARA_BREAK}"
QuoteText(text) == PARA_BREAK \o <<">", " ">> \o text \o PARA_BREAK

\* the string the node contributes to soup.get_text after the rewrite passes
Rewrite(node) ==
    LET text == GetTextStrip(node.text) IN
    CASE node.kind = "text" -> Some(node.text)
      [] node.kind = "prakriya" ->
            IF text # <<>>
            THEN Some(QuoteText(text))
            ELSE Untouched(node)
      [] node.kind = "header" ->
            IF text # <<>>
            THEN Some(PARA_BREAK \o <<"#", "#", "#", " ">> \o text \o PARA_BREAK)
            ELSE Untouched(node)
      [] node.kind \in {"bold", "fwbold"} ->
            IF text # <<>> THEN Some(<<"*", "*">> \o text \o <<"*", "*">>)
            ELSE Untouched(node)
      [] node.kind = "italic" ->
            IF text # <<>> THEN Some(<<"*">> \o text \o <<"*">>)
            ELSE Untouched(node)
      [] node.kind = "br" -> Some(LINE_BREAK)
      [] node.kind = "hr" ->
            Some(PARA_BREAK \o <<"-", "-", "-">> \o PARA_BREAK)
      [] node.kind = "div" ->
            IF text # <<>> THEN Some(PARA_BREAK \o text \o PARA_BREAK)
            ELSE Untouched(node)
      [] node.kind = "a" ->
            IF text # <<>> /\ node.href # <<>>
            THEN Some(<<"[">> \o text \o <<"]", "(">> \o node.href \o <<")">>)
            ELSE IF text # <<>> THEN Some(text)
            ELSE Untouched(node)
      [] OTHER -> Untouched(node)

\* soup.get_text(separator=' ')
GetTextSep(nodes) ==
    LET strings == SelectSeq([k \in 1..Len(nodes) |-> Rewrite(nodes[k])],
                             LAMBDA o : o # None)
    IN  Join([k \in 1..Len(strings) |-> strings[k][1]], <<" ">>)

\* re.sub(r'[ \t]+', ' ', text)
RECURSIVE CollapseSpaces(_)
CollapseSpaces(s) ==
    IF s = <<>> THEN <<>>
    ELSE IF s[1] \in SpaceTab
    THEN <<" ">> \o CollapseSpaces(LStrip(s, SpaceTab))
    ELSE <<s[1]>> \o CollapseSpaces(Tail(s))

\* the derivation steps of a paragraph that holds an arrow
FormatSteps(para) ==
    LET steps == Split(para, Arrow)
        fmt == [k \in 1..Len(steps) |->
                   LET step == Strip(steps[k]) IN
                   IF step = <<>> THEN None
                   ELSE IF k = 1 THEN Some(step)
                   ELSE Some(<<Arrow, " ">> \o step)]
        kept == SelectSeq(fmt, LAMBDA o : o # None)
    IN  Join([k \in 1..Len(kept) |-> kept[k][1]], <<"\n", "\n">>)

\* a segment test that splits block quotes too
FormatPara_SplitsQuotes(raw) ==
    LET para == Strip(raw) IN
    IF para = <<>> THEN None
    ELSE IF Contains(para, <<Arrow>>) THEN Some(FormatSteps(para))
    ELSE Some(para)

\* one segment between sentinels: trimmed, dropped if empty, steps reformatted
FormatPara(raw) ==
    LET para == Strip(raw) IN
    IF para = <<>> THEN None
    ELSE IF Contains(para, <<Arrow>>) /\ ~StartsWith(para, <<">">>)
    THEN Some(FormatSteps(para))
    ELSE Some(para)

\* re.sub(r'\n{3,}', '\n\n', text)
RECURSIVE CollapseNewlines(_)
CollapseNewlines(s) ==
    IF s = <<>> THEN <<>>
    ELSE IF s[1] = "\n"
    THEN LET rest == LStrip(s, {"\n"})
             run == Len(s) - Len(rest)
         IN  (IF run >= 3 THEN <<"\n", "\n">> ELSE SubSeq(s, 1, run))
             \o CollapseNewlines(rest)
    ELSE <<s[1]>> \o CollapseNewlines(Tail(s))

\* re.sub(r'\*\*\s*\*\*', '', text)
RECURSIVE RemoveEmptyBolds(_)
RemoveEmptyBolds(s) ==
    IF s = <<>> THEN <<>>
    ELSE IF StartsWith(s, <<"*", "*">>)
            /\ StartsWith(LStrip(SubSeq(s, 3, Len(s)), Whitespace), <<"*", "*">>)
    THEN LET after == LStrip(SubSeq(s, 3, Len(s)), Whitespace)
         IN  RemoveEmptyBolds(SubSeq(after, 3, Len(after)))
    ELSE <<s[1]>> \o RemoveEmptyBolds(Tail(s))

\* re.sub(r'\s+([...])', r'\1', text)
RECURSIVE FixPunctuation(_)
FixPunctuation(s) ==
    IF s = <<>> THEN <<>>
    ELSE IF s[1] \in Whitespace
            /\ LStrip(s, Whitespace) # <<>>
            /\ LStrip(s, Whitespace)[1] \in Punctuation
    THEN FixPunctuation(LStrip(s, Whitespace))
    ELSE <<s[1]>> \o FixPunctuation(Tail(s))

HtmlToMarkdown(html) ==
    IF html = <<>> THEN <<>>
    ELSE
    LET text0 == CollapseSpaces(GetTextSep(html))
        paragraphs == Split(text0, PARA)
        formatted == SelectSeq([k \in 1..Len(paragraphs) |->
                                    FormatPara(paragraphs[k])],
                               LAMBDA o : o # None)
        joined == Join([k \in 1..Len(formatted) |-> formatted[k][1]],
                       <<"\n", "\n">>)
    IN  Strip(FixPunctuation(RemoveEmptyBolds(CollapseNewlines(joined))))

(***************************************************************************)
(* _parse_detail_page. A detail page that loaded is a record               *)
(*   title_elem      the text of the first .title-font, .list-group-title  *)
(*   summary_region  the rows of #sutra-summary-region, if it exists; a    *)
(*                   row has label and value (the texts of its label and   *)
(*                   value elements, if any) and text (its whole text)     *)
(*   short_elem      the text of the first .bigtext-font,                  *)
(*                   .sutra-meaning-short, if any                          *)
(*   bold_elem       the text of a .font-weight-bold outside the regions   *)
(*   regions         the [id^='sutra-commentary-'][id$='-region'] elements *)
(*                   in document order: id (the part between prefix and    *)
(*                   suffix), heading (the text of .list-item-title-color, *)
(*                   if any), body (the contents of .sutra-commentary, if  *)
(*                   any)                                                  *)
(***************************************************************************)
SummaryLineMax == 200
SummaryName == <<"Summary">>

\* d[key] = value on a dict kept as a sequence of <<key, value>> in insertion order
DictSet(d, key, value) ==
    IF \E k \in 1..Len(d) : d[k][1] = key
    THEN [k \in 1..Len(d) |-> IF d[k][1] = key THEN <<key, value>> ELSE d[k]]
    ELSE Append(d, <<key, value>>)

\* title.split(" ", 1)
SplitFirstSpace(title) ==
    LET k == FindFirst(title, <<" ">>)
    IN  IF k = 0 THEN <<title>>
        ELSE <<SubSeq(title, 1, k - 1), SubSeq(title, k + 1, Len(title))>>

\* the line a row of the summary region gives, if any
SummaryItem(row) ==
    IF row.label # None /\ row.value # None
    THEN LET label == RStrip(GetTextStrip(row.label[1]), {":"})
             value == GetTextStrip(row.value[1])
         IN  IF label # <<>> /\ value # <<>>
             THEN Some(<<"*", "*">> \o label \o <<":", "*", "*", " ">> \o value)
             ELSE None
    ELSE LET text == GetTextStrip(row.text)
         IN  IF text # <<>> /\ Len(text) < SummaryLineMax THEN Some(text)
             ELSE None

SummaryContent(pg) ==
    IF pg.summary_region = None THEN <<>>
    ELSE LET rows == pg.summary_region[1]
             got == SelectSeq([k \in 1..Len(rows) |-> SummaryItem(rows[k])],
                              LAMBDA o : o # None)
         IN  Join([k \in 1..Len(got) |-> got[k][1]], <<"\n", "\n">>)

\* a selector that takes the body of the first commentary region, whatever its id
Sutrartha_AnyRegion(pg) ==
    LET hits == {k \in 1..Len(pg.regions) : pg.regions[k].body # None}
    IN  IF hits = {} THEN None
        ELSE pg.regions[CHOOSE k \in hits : \A h \in hits : k <= h].body

\* soup.select_one("#sutra-commentary-sutrartha-region .sutra-commentary")
Sutrartha(pg) ==
    LET hits == {k \in 1..Len(pg.regions) :
                     pg.regions[k].id = "sutrartha" /\ pg.regions[k].body # None}
    IN  IF hits = {} THEN None
        ELSE pg.regions[CHOOSE k \in hits : \A h \in hits : k <= h].body

\* 'sutrartha' in region.get('id', '')
IsSutrarthaId(id) == id \in {"sutrartha", "sutrartha-2"}

\* the texts of the .font-weight-bold elements of the page in document order
BoldTexts(pg) ==
    (IF pg.bold_elem # None THEN <<pg.bold_elem[1]>> ELSE <<>>)
    \o Flatten([k \in 1..Len(pg.regions) |->
          IF pg.regions[k].body = None THEN <<>>
          ELSE LET b == pg.regions[k].body[1]
                   fw == SelectSeq(b, LAMBDA n : n.kind = "fwbold")
               IN  [j \in 1..Len(fw) |-> fw[j].text]])

\* a content check that lets every transformed text through
StoresSection_Always(content_text) == TRUE

\* if content_text.strip():
StoresSection(content_text) == Strip(content_text) # <<>>

\* the commentary loop: the sections after the regions from k on
RECURSIVE CommentarySections(_, _, _)
CommentarySections(regions, k, sections) ==
    IF k > Len(regions) THEN sections
    ELSE LET region == regions[k]
             section_name == IF region.heading # None
                             THEN GetTextStrip(region.heading[1]) ELSE <<>>
         IN
         IF IsSutrarthaId(region.id)
         THEN CommentarySections(regions, k + 1, sections)
         ELSE IF section_name = <<>>
         THEN CommentarySections(regions, k + 1, sections)
         ELSE IF region.body = None
         THEN CommentarySections(regions, k + 1, sections)
         ELSE LET content_text == HtmlToMarkdown(region.body[1]) IN
              IF StoresSection(content_text)
              THEN CommentarySections(regions, k + 1,
                       DictSet(sections, section_name, content_text))
              ELSE CommentarySections(regions, k + 1, sections)

\* short_meaning, combined with the transformed sutrartha
MainContent(pg) ==
    LET short_meaning ==
            IF pg.short_elem # None
            THEN <<"*", "*">> \o GetTextStrip(pg.short_elem[1]) \o <<"*", "*">>
            ELSE <<>>
        sutrartha == Sutrartha(pg)
        main0 == IF sutrartha # None THEN HtmlToMarkdown(sutrartha[1])
                 ELSE <<>>
    IN  IF short_meaning # <<>> /\ main0 # <<>>
        THEN short_meaning \o <<"\n", "\n">> \o main0
        ELSE IF short_meaning # <<>> THEN short_meaning
        ELSE main0

\* the fallback: the first .bigtext-font, .font-weight-bold of the page
FallbackContent(pg, main_content) ==
    IF main_content # <<>> THEN main_content
    ELSE IF pg.short_elem # None /\ pg.short_is_bigtext
    THEN GetTextStrip(pg.short_elem[1])
    ELSE IF BoldTexts(pg) # <<>> THEN GetTextStrip(BoldTexts(pg)[1])
    ELSE main_content

\* the page loaded: the dict _parse_detail_page returns
ParseDetailPage(pg) ==
    LET title == IF pg.title_elem # None THEN GetTextStrip(pg.title_elem[1])
                 ELSE <<>>
        parts == IF title # <<>> THEN SplitFirstSpace(title)
                 ELSE <<<<>>, <<>>>>
        summary_content == SummaryContent(pg)
        sections0 == IF summary_content # <<>>
                     THEN DictSet(<<>>, SummaryName, summary_content)
                     ELSE <<>>
    IN  [number |-> Strip(parts[1]),
         title |-> IF Len(parts) > 1 THEN Strip(parts[2]) ELSE title,
         content |-> FallbackContent(pg, MainContent(pg)),
         sections |-> CommentarySections(pg.regions, 1, sections0)]

(***************************************************************************)
(* The pages the site serves, within the bounds.                           *)
(***************************************************************************)
SeqsUpTo(S, n) == UNION {[1..k -> S] : k \in 0..n}

AllOnes(k) == [j \in 1..k |-> <<"1">>]

\* "/sutraani" followed by "/" and each segment
SutraPath(segs) ==
    <<"/", "sutraani">>
    \o Flatten([k \in 1..Len(segs) |-> <<"/">> \o segs[k]])

ValidHref == SutraPath(AllOnes(3))
ValidHref2 == SutraPath(<<<<"1">>, <<"2">>, <<"1", "2">>>>)

SutraHrefs ==
    {SutraPath(AllOnes(k)) : k \in 1..MaxSegs}
    \cup {SutraPath([AllOnes(3) EXCEPT ![j] = <<"z">>]) : j \in 1..3}
    \cup {ValidHref \o <<"/">>, SutraPath(<<<<"1">>, <<>>, <<"2">>>>)}

SutraNode(href, cls, badge, kaumudi, siblings) ==
    [tag |-> "a", class |-> cls, href |-> Some(href), in_content |-> TRUE,
     link |-> None, badge |-> badge,
     title_elem |-> IF kaumudi # None THEN Some(<<"t">>) ELSE None,
     kaumudi_elem |-> kaumudi, notes |-> <<>>, siblings |-> siblings,
     own_text |-> <<"w">>, in_item |-> FALSE]

RichSutraNode ==
    SutraNode(ValidHref, {"d-block"}, Some(<<"1", ".", "1", ".", "1">>),
              Some(<<"kaumudi", "7">>), <<<<"bullet", "n">>, <<"x">>>>)
BlankBadgeSutraNode == SutraNode(ValidHref, {"d-block"}, Some(<<" ">>), None, <<>>)
ShortSutraNode == SutraNode(SutraPath(AllOnes(2)), {"d-block"}, None, None, <<>>)

SutraNodes ==
    {SutraNode(h, {"d-block"}, None, None, <<>>) : h \in SutraHrefs}
    \cup {RichSutraNode, BlankBadgeSutraNode,
          SutraNode(ValidHref, {}, None, None, <<>>),
          SutraNode(ValidHref2, {"href"}, None, Some(<<"x">>), <<>>)}

DhatuAnchor ==
    [tag |-> "a", class |-> {}, href |-> Some(DhatuPrefix \o <<"1">>),
     in_content |-> TRUE, link |-> None, badge |-> None, title_elem |-> None,
     kaumudi_elem |-> None, notes |-> <<>>, siblings |-> <<>>,
     own_text |-> <<"w">>, in_item |-> FALSE]

ListItem(cls, inside, link, badge, notes) ==
    [tag |-> "div", class |-> {"list-group-item"} \cup cls, href |-> None,
     in_content |-> inside, link |-> link, badge |-> badge,
     title_elem |-> IF badge # None THEN Some(<<"t">>) ELSE None,
     kaumudi_elem |-> None, notes |-> notes, siblings |-> <<>>,
     own_text |-> <<>>, in_item |-> FALSE]

NumberedItem ==
    ListItem({}, TRUE, Some(<<"/", "shivasutra", "/", "1">>), Some(<<"1">>),
             <<<<"n">>, <<" ">>>>)
UnnumberedItem == ListItem({}, TRUE, Some(DhatuPrefix \o <<"2">>), None, <<>>)
HeaderItem == ListItem({"bg-light"}, TRUE, Some(<<"/", "x">>), None, <<>>)

ListItems ==
    {NumberedItem, UnnumberedItem, HeaderItem,
     ListItem({}, TRUE, None, None, <<>>),
     ListItem({}, TRUE, Some(<<>>), None, <<>>),
     ListItem({}, TRUE, Some(<<"#">>), None, <<>>),
     ListItem({}, TRUE, Some(<<"http", ":", "/", "/", "h">>), None, <<>>),
     ListItem({}, TRUE, Some(<<"x">>), Some(<<"2">>), <<>>)}

\* the nodes a listing handed to _parse_entry_links is drawn from
Nodes == SutraNodes \cup {DhatuAnchor} \cup ListItems
Listings == SeqsUpTo(Nodes, MaxItems)

\* the nodes the listing of a scrape_book run is drawn from
BookNodes == {RichSutraNode, BlankBadgeSutraNode, ShortSutraNode,
              NumberedItem, UnnumberedItem, HeaderItem}
BookListings == SeqsUpTo(BookNodes, MaxItems)

\* markup fragments
TextNode(t) == [kind |-> "text", text |-> t, href |-> <<>>]
Element(kind, t) == [kind |-> kind, text |-> t, href |-> <<>>]

Row(label, value, text) == [label |-> label, value |-> value, text |-> text]
LongText == [k \in 1..SummaryLineMax |-> "a"]

SummaryRegions ==
    {None,
     Some(<<>>),
     Some(<<Row(Some(<<"l", ":">>), Some(<<"v">>), <<"l", ":", "v">>)>>),
     Some(<<Row(Some(<<":">>), Some(<<"v">>), <<":", "v">>),
            Row(None, None, <<" ">>)>>),
     Some(<<Row(None, Some(<<"v">>), <<"v">>), Row(None, None, LongText)>>)}

Region(id, heading, body) == [id |-> id, heading |-> heading, body |-> body]

BlankFragment == <<Element("fwbold", <<" ">>)>>
PlainFragment == <<TextNode(<<"a">>)>>

Regions ==
    {Region("sutrartha", None, b) :
        b \in {None, Some(PlainFragment), Some(BlankFragment),
               Some(<<Element("prakriya", <<"a", Arrow, "b">>),
                      Element("div", <<"c">>)>>)}}
    \cup {Region("kashika", h, Some(PlainFragment)) :
            h \in {None, Some(<<"H">>), Some(<<" ">>)}}
    \cup {Region("kashika", Some(<<"H">>), b) :
            b \in {None, Some(<<TextNode(<<" ">>)>>), Some(<<>>),
                   Some(<<Element("fwbold", <<"k">>), TextNode(<<" ", ".">>)>>),
                   Some(<<TextNode(<<"*", "*">>), TextNode(<<"*", "*">>)>>)}}
    \cup {Region("sutrartha-2", Some(<<"H">>), Some(PlainFragment))}

DetailPage(t, sm, sh, bo, rs) ==
    [title_elem |-> t, summary_region |-> sm, short_elem |-> sh,
     short_is_bigtext |-> TRUE, bold_elem |-> bo, regions |-> rs]

\* the detail pages handed to _parse_detail_page
DetailPages ==
    {DetailPage(t, sm, sh, bo, rs) :
        t \in {None, Some(<<"1", ".", "1", " ", "t">>)},
        sm \in SummaryRegions,
        sh \in {None, Some(<<"m">>)},
        bo \in {None, Some(<<"k">>)},
        rs \in SeqsUpTo(Regions, MaxRegions)}

FullPage ==
    DetailPage(Some(<<"1", ".", "1", " ", "t">>),
               Some(<<Row(Some(<<"l", ":">>), Some(<<"v">>), <<"l", ":", "v">>)>>),
               Some(<<"m">>), None,
               <<Region("sutrartha", None, Some(<<TextNode(<<"a">>)>>)),
                 Region("kashika", Some(<<"H">>), Some(<<TextNode(<<"a">>)>>))>>)
BarePage == DetailPage(None, None, None, None, <<>>)
UntitledPage ==
    DetailPage(Some(<<" ">>), None, None, Some(<<"k">>), <<>>)

\* the detail pages a scrape_book run meets
BookDetailPages == {FullPage, BarePage, UntitledPage}

BookArgs == {"shivasutra", "sutraani", "dhatu", "ganapatha", "vedas"}

(***************************************************************************)
(* _close_driver, and the ways scrape_book ends                            *)
(***************************************************************************)
CloseDriver ==
    IF driver # "None"
    THEN driver' = "None" /\ sessions' = sessions - 1
    ELSE UNCHANGED <<driver, sessions>>

\* return book, through the finally clause
ReturnBook ==
    /\ pc' = "done"
    /\ outcome' = "returned"
    /\ CloseDriver

\* an exception that leaves scrape_book past a missing finally clause
RaiseInTry_NoFinally(exc) ==
    /\ pc' = "done"
    /\ outcome' = exc
    /\ UNCHANGED <<driver, sessions>>

\* an exception raised inside the try block, through the finally clause
RaiseInTry(exc) ==
    /\ pc' = "done"
    /\ outcome' = exc
    /\ CloseDriver

\* if self.limit and i > self.limit: break
LoopCapReached(idx, lim) == lim # 0 /\ idx > lim

\* the head of the loop over entries_data at index idx: fetch or finish
LoopHead(ed, idx) ==
    IF idx <= Len(ed) /\ ~LoopCapReached(idx, limit)
    THEN /\ pc' = "fetch"
         /\ i' = idx
         /\ UNCHANGED <<outcome, driver, sessions>>
    ELSE /\ i' = idx
         /\ ReturnBook

\* the listing snapshot is parsed and the loop over its entries begins
AfterSnapshot(snap) ==
    /\ listing' = snap
    /\ entries_data' = ParseEntryLinks(snap, book_name, limit)
    /\ entries' = <<>>
    /\ details' = <<>>
    /\ LoopHead(entries_data', 1)
    /\ UNCHANGED book_name

(***************************************************************************)
(* _scroll_to_load_all                                                     *)
(***************************************************************************)

\* a loop condition that lets one more pass through
ScrollCondition_Inclusive(sc, ms) == sc <= ms

\* while scroll_count < max_scrolls
ScrollCondition(sc, ms) == sc < ms

\* the comparison of the measurement with last_count, and the counter it leaves
NoChangeAfter(current_count, lc, ncc) ==
    IF current_count = lc THEN ncc + 1 ELSE 0

\* if no_change_count >= 5: break (only in the unchanged branch)
StallBreak(current_count, lc, ncc) ==
    current_count = lc /\ ncc + 1 >= StallThreshold

\* if self.limit and current_count >= self.limit: break
LimitBreak(current_count, lim) == lim # 0 /\ current_count >= lim

\* the history variables after a measurement
Measured(current_count) ==
    /\ iters' = iters + 1
    /\ prev_measured' = current_count
    /\ since_increase' = IF current_count > prev_measured THEN 0
                         ELSE since_increase + 1
    /\ decreased' = (decreased \/ current_count < prev_measured)

\* the frame of _scroll_to_load_all and its history, before and after a call
ScrollFrameCleared ==
    /\ last_count' = 0
    /\ scroll_count' = 0
    /\ no_change_count' = 0
    /\ driver_scrolls' = 0
    /\ iters' = 0
    /\ prev_measured' = 0
    /\ since_increase' = 0
    /\ decreased' = FALSE

\* The loop is over and last_count goes back to the caller. scrape_book
\* drops it, reads driver.page_source (the page has lost no anchor since the
\* measurement) and goes on; sc, lc, ncc: the locals as the loop leaves them.
ScrollReturn(measured, lc, ncc) ==
    IF entry_point = "scrape_book"
    THEN /\ \E snap \in BookListings :
               /\ CountAnchors(snap) >= present
               /\ AfterSnapshot(snap)
               /\ present' = CountAnchors(snap)
         /\ ScrollFrameCleared
    ELSE /\ pc' = "done"
         /\ outcome' = "returned"
         /\ last_count' = lc
         /\ no_change_count' = ncc
         /\ IF measured THEN Measured(present) ELSE UNCHANGED scrollHist
         /\ UNCHANGED <<present, driver_scrolls, scroll_count, driver,
                        sessions, bookVars>>

\* One pass from the loop head: the condition, the measurement, the two
\* breaks, the scroll command. counts: what the page may show after a scroll.
ScrollIter(counts) ==
    /\ pc = "scroll"
    /\ UNCHANGED <<entry_point, limit, max_scrolls, fetched, envHist,
                   detailVars,
                   textVars, saveVars>>
    /\ IF ~ScrollCondition(scroll_count, max_scrolls)
       THEN ScrollReturn(FALSE, last_count, no_change_count)
       ELSE LET current_count == present
                ncc == NoChangeAfter(current_count, last_count, no_change_count)
            IN
            IF \/ StallBreak(current_count, last_count, no_change_count)
               \/ LimitBreak(current_count, limit)
            THEN ScrollReturn(TRUE, current_count, ncc)
            ELSE /\ Measured(current_count)
                 /\ no_change_count' = ncc
                 /\ last_count' = current_count
                 /\ driver_scrolls' = driver_scrolls + 1
                 /\ scroll_count' = scroll_count + 1
                 /\ \E p \in counts : present' = p
                 /\ UNCHANGED <<pc, outcome, driver, sessions, bookVars>>

\* find_elements or execute_script raises: the exception leaves the function,
\* and leaves scrape_book through its finally clause
ScrollDriverError ==
    /\ pc = "scroll"
    /\ ScrollCondition(scroll_count, max_scrolls)
    /\ IF entry_point = "scrape_book"
       THEN RaiseInTry("DriverError")
       ELSE pc' = "done" /\ outcome' = "DriverError"
                         /\ UNCHANGED <<driver, sessions>>
    /\ UNCHANGED <<entry_point, limit, browserVars, envHist, scrollVars,
                   scrollHist, bookVars, detailVars,
                   textVars, saveVars>>

(***************************************************************************)
(* scrape_book                                                             *)
(***************************************************************************)

\* str(i)
RECURSIVE IntToStr(_)
IntToStr(n) ==
    LET d == <<"0", "1", "2", "3", "4", "5", "6", "7", "8", "9">>[(n % 10) + 1]
    IN  IF n < 10 THEN <<d>> ELSE IntToStr(n \div 10) \o <<d>>

\* if not entry.number: entry.number = detail['number'] if detail else str(i)
EntryNumber(data, det, idx) ==
    IF data.number # <<>> THEN data.number
    ELSE IF det # None THEN det[1].number
    ELSE IntToStr(idx)

\* the EntryInfo built from a listing summary and the detail result
MakeEntry(data, det, idx) ==
    [number |-> EntryNumber(data, det, idx),
     title |-> IF data.title # <<>> THEN data.title
               ELSE IF det # None THEN det[1].title ELSE <<>>,
     url |-> data.url,
     content |-> IF det # None THEN det[1].content ELSE <<>>,
     sections |-> IF det # None THEN det[1].sections ELSE <<>>,
     notes |-> data.notes,
     metadata |-> data.metadata]

\* _parse_detail_page(url): the page fails to load (None) or is parsed
DetailResult(load) ==
    IF load = None THEN None ELSE Some(ParseDetailPage(load[1]))

\* a book check placed after _init_driver(): the session is open when it raises
ScrapeUnknownBook_AfterInit ==
    /\ entry_point = "scrape_book"
    /\ pc = "idle"
    /\ \E b \in BookArgs \ BookNames : book_name' = b
    /\ pc' = "done"
    /\ outcome' = "ValueError"
    /\ driver' = "session"
    /\ sessions' = sessions + 1
    /\ launches' = launches + 1
    /\ UNCHANGED <<entry_point, limit, browserVars, navigations, scrollVars, scrollHist,
                   listing, entries_data, i, entries, details, detailVars,
                   textVars, saveVars>>

\* if book_name not in BOOK_CONFIGS: raise ValueError
ScrapeUnknownBook ==
    /\ entry_point = "scrape_book"
    /\ pc = "idle"
    /\ \E b \in BookArgs \ BookNames : book_name' = b
    /\ pc' = "done"
    /\ outcome' = "ValueError"
    /\ UNCHANGED <<entry_point, objVars, browserVars, envHist, scrollVars, scrollHist,
                   listing, entries_data, i, entries, details, detailVars,
                   textVars, saveVars>>

\* _init_driver raises: webdriver.Chrome failed, the exception is re-raised
ScrapeInitFails ==
    /\ entry_point = "scrape_book"
    /\ pc = "idle"
    /\ \E b \in BookArgs \cap BookNames : book_name' = b
    /\ pc' = "done"
    /\ outcome' = "InitError"
    /\ launches' = launches + 1
    /\ UNCHANGED <<entry_point, objVars, browserVars, navigations, scrollVars, scrollHist,
                   listing, entries_data, i, entries, details, detailVars,
                   textVars, saveVars>>

\* _init_driver succeeds: a browser session is open
ScrapeInitOk ==
    /\ entry_point = "scrape_book"
    /\ pc = "idle"
    /\ \E b \in BookArgs \cap BookNames : book_name' = b
    /\ driver' = "session"
    /\ sessions' = sessions + 1
    /\ pc' = "load_main"
    /\ launches' = launches + 1
    /\ UNCHANGED <<entry_point, outcome, limit, browserVars, navigations, scrollVars,
                   scrollHist, listing, entries_data, i, entries, details,
                   detailVars,
                   textVars, saveVars>>

\* _get_page_source(config['url']) gives None: raise Exception
LoadMainFails ==
    /\ pc = "load_main"
    /\ RaiseInTry("MainPageError")
    /\ navigations' = navigations + 1
    /\ UNCHANGED <<entry_point, limit, browserVars, launches, scrollVars, scrollHist,
                   bookVars, detailVars,
                   textVars, saveVars>>

\* the main page of a book with infinite scroll loaded: _scroll_to_load_all()
LoadMainScroll ==
    /\ pc = "load_main"
    /\ BOOK_CONFIGS[book_name].has_infinite_scroll
    /\ \E p \in 0..MaxItems : present' = p
    /\ max_scrolls' = DefaultMaxScrolls
    /\ ScrollFrameCleared
    /\ pc' = "scroll"
    /\ navigations' = navigations + 1
    /\ UNCHANGED <<entry_point, outcome, objVars, fetched, launches, bookVars,
                   detailVars,
                   textVars, saveVars>>

\* the main page of a book without infinite scroll loaded: it is the snapshot
LoadMainStatic ==
    /\ pc = "load_main"
    /\ ~BOOK_CONFIGS[book_name].has_infinite_scroll
    /\ \E snap \in BookListings :
           /\ AfterSnapshot(snap)
           /\ present' = CountAnchors(snap)
    /\ navigations' = navigations + 1
    /\ UNCHANGED <<entry_point, limit, driver_scrolls, fetched, launches,
                   scrollVars, scrollHist, detailVars,
                   textVars, saveVars>>

\* a loop pass that lets a failed detail load end the run, its entry unmade
FetchDetail_AbortOnFailure ==
    /\ pc = "fetch"
    /\ \E load \in {None} \cup {Some(pg) : pg \in BookDetailPages} :
         LET data == entries_data[i]
             det == DetailResult(load)
         IN  /\ fetched' = Append(fetched, data.url)
             /\ details' = Append(details, det)
             /\ IF det = None
                THEN /\ entries' = entries
                     /\ i' = i
                     /\ RaiseInTry("DetailError")
                ELSE /\ entries' = Append(entries, MakeEntry(data, det, i))
                     /\ LoopHead(entries_data, i + 1)
    /\ navigations' = navigations + 1
    /\ UNCHANGED <<entry_point, limit, present, driver_scrolls, launches, scrollVars,
                   scrollHist, book_name, listing, entries_data, detailVars,
                   textVars, saveVars>>

\* one pass of the loop over entries_data: the detail fetch, the entry, and
\* the loop head again
FetchDetail ==
    /\ pc = "fetch"
    /\ \E load \in {None} \cup {Some(pg) : pg \in BookDetailPages} :
         LET data == entries_data[i]
             det == DetailResult(load)
         IN  /\ fetched' = Append(fetched, data.url)
             /\ details' = Append(details, det)
             /\ entries' = Append(entries, MakeEntry(data, det, i))
    /\ LoopHead(entries_data, i + 1)
    /\ navigations' = navigations + 1
    /\ UNCHANGED <<entry_point, limit, present, driver_scrolls, launches, scrollVars,
                   scrollHist, book_name, listing, entries_data, detailVars,
                   textVars, saveVars>>

(***************************************************************************)
(* scrape_book(book) on a freshly constructed scraper. The listing of a    *)
(* book with infinite scroll only grows while it is scrolled.              *)
(***************************************************************************)
Init ==
    /\ entry_point = "scrape_book"
    /\ pc = "idle"
    /\ outcome = "none"
    /\ limit \in 0..MaxLimit
    /\ driver = "None"
    /\ sessions = 0
    /\ present = 0
    /\ driver_scrolls = 0
    /\ fetched = <<>>
    /\ launches = 0
    /\ navigations = 0
    /\ max_scrolls = 0
    /\ last_count = 0
    /\ scroll_count = 0
    /\ no_change_count = 0
    /\ iters = 0
    /\ prev_measured = 0
    /\ since_increase = 0
    /\ decreased = FALSE
    /\ book_name = "none"
    /\ listing = <<>>
    /\ entries_data = <<>>
    /\ i = 0
    /\ entries = <<>>
    /\ details = <<>>
    /\ page = None
    /\ detail = None
    /\ arg = <<>>
    /\ result = <<>>
    /\ again = <<>>
    /\ written = <<>>
    /\ index_paths = <<>>

Next ==
    \/ ScrapeUnknownBook
    \/ ScrapeInitFails
    \/ ScrapeInitOk
    \/ LoadMainFails
    \/ LoadMainScroll
    \/ LoadMainStatic
    \/ ScrollIter(present..MaxItems)
    \/ ScrollDriverError
    \/ FetchDetail

Spec == Init /\ [][Next]_vars

(***************************************************************************)
(* A direct call of _scroll_to_load_all(max_scrolls) on a scraper whose    *)
(* driver is open, against a page that may show any count after a scroll.  *)
(***************************************************************************)
InitScroll ==
    /\ entry_point = "_scroll_to_load_all"
    /\ pc = "scroll"
    /\ outcome = "none"
    /\ limit \in 0..MaxLimit
    /\ driver = "session"
    /\ sessions = 1
    /\ present \in 0..MaxItems
    /\ driver_scrolls = 0
    /\ fetched = <<>>
    /\ launches = 0
    /\ navigations = 0
    /\ max_scrolls \in 0..MaxScrollsArg
    /\ last_count = 0
    /\ scroll_count = 0
    /\ no_change_count = 0
    /\ iters = 0
    /\ prev_measured = 0
    /\ since_increase = 0
    /\ decreased = FALSE
    /\ book_name = "none"
    /\ listing = <<>>
    /\ entries_data = <<>>
    /\ i = 0
    /\ entries = <<>>
    /\ details = <<>>
    /\ page = None
    /\ detail = None
    /\ arg = <<>>
    /\ result = <<>>
    /\ again = <<>>
    /\ written = <<>>
    /\ index_paths = <<>>

NextScroll ==
    \/ ScrollIter(0..MaxItems)
    \/ ScrollDriverError

SpecScroll == InitScroll /\ [][NextScroll]_vars
                 /\ WF_vars(ScrollIter(0..MaxItems))

(***************************************************************************)
(* A direct call of _parse_entry_links(soup, book_type).                   *)
(***************************************************************************)
LinkBooks == {"sutraani", "dhatu", "shivasutra"}

InitLinks ==
    /\ entry_point = "_parse_entry_links"
    /\ pc = "links"
    /\ outcome = "none"
    /\ limit \in 0..MaxLimit
    /\ driver = "None"
    /\ sessions = 0
    /\ present = 0
    /\ driver_scrolls = 0
    /\ fetched = <<>>
    /\ launches = 0
    /\ navigations = 0
    /\ max_scrolls = 0
    /\ last_count = 0
    /\ scroll_count = 0
    /\ no_change_count = 0
    /\ iters = 0
    /\ prev_measured = 0
    /\ since_increase = 0
    /\ decreased = FALSE
    /\ book_name \in LinkBooks
    /\ listing \in Listings
    /\ entries_data = <<>>
    /\ i = 0
    /\ entries = <<>>
    /\ details = <<>>
    /\ page = None
    /\ detail = None
    /\ arg = <<>>
    /\ result = <<>>
    /\ again = <<>>
    /\ written = <<>>
    /\ index_paths = <<>>

ParseEntryLinksCall ==
    /\ pc = "links"
    /\ entries_data' = ParseEntryLinks(listing, book_name, limit)
    /\ pc' = "done"
    /\ outcome' = "returned"
    /\ UNCHANGED <<entry_point, objVars, browserVars, envHist, scrollVars,
                   scrollHist, book_name, listing, i, entries, details,
                   detailVars,
                   textVars, saveVars>>

NextLinks == ParseEntryLinksCall

SpecLinks == InitLinks /\ [][NextLinks]_vars

(***************************************************************************)
(* A direct call of _parse_detail_page(url) on a scraper whose driver is   *)
(* open.                                                                   *)
(***************************************************************************)
InitDetail ==
    /\ entry_point = "_parse_detail_page"
    /\ pc = "detail"
    /\ outcome = "none"
    /\ limit = 0
    /\ driver = "session"
    /\ sessions = 1
    /\ present = 0
    /\ driver_scrolls = 0
    /\ fetched = <<>>
    /\ launches = 0
    /\ navigations = 0
    /\ max_scrolls = 0
    /\ last_count = 0
    /\ scroll_count = 0
    /\ no_change_count = 0
    /\ iters = 0
    /\ prev_measured = 0
    /\ since_increase = 0
    /\ decreased = FALSE
    /\ book_name = "none"
    /\ listing = <<>>
    /\ entries_data = <<>>
    /\ i = 0
    /\ entries = <<>>
    /\ details = <<>>
    /\ page = None
    /\ detail = None
    /\ arg = <<>>
    /\ result = <<>>
    /\ again = <<>>
    /\ written = <<>>
    /\ index_paths = <<>>

\* the page fails to load: return None
ParseDetailFails ==
    /\ pc = "detail"
    /\ page' = None
    /\ detail' = DetailResult(None)
    /\ pc' = "done"
    /\ outcome' = "returned"
    /\ navigations' = navigations + 1
    /\ UNCHANGED <<entry_point, objVars, browserVars, launches, scrollVars,
                   scrollHist, bookVars, textVars, saveVars>>

\* the page loads and is parsed
ParseDetailLoads ==
    /\ pc = "detail"
    /\ \E pg \in DetailPages :
           /\ page' = Some(pg)
           /\ detail' = DetailResult(Some(pg))
    /\ pc' = "done"
    /\ outcome' = "returned"
    /\ navigations' = navigations + 1
    /\ UNCHANGED <<entry_point, objVars, browserVars, launches, scrollVars,
                   scrollHist, bookVars, textVars, saveVars>>

NextDetail ==
    \/ ParseDetailFails
    \/ ParseDetailLoads

SpecDetail == InitDetail /\ [][NextDetail]_vars

(***************************************************************************)
(* _deva_to_english. Devanagari digit k is written "Dk" and Gujarati digit *)
(* k "Gk"; every other character is written as itself.                     *)
(***************************************************************************)
AsciiDigits == <<"0", "1", "2", "3", "4", "5", "6", "7", "8", "9">>
DevanagariDigits ==
    <<"D0", "D1", "D2", "D3", "D4", "D5", "D6", "D7", "D8", "D9">>
GujaratiDigits ==
    <<"G0", "G1", "G2", "G3", "G4", "G5", "G6", "G7", "G8", "G9">>

DEVA_TO_ENG ==
    [c \in {DevanagariDigits[k] : k \in 1..10}
           \cup {GujaratiDigits[k] : k \in 1..10} |->
        AsciiDigits[CHOOSE k \in 1..10 :
                        DevanagariDigits[k] = c \/ GujaratiDigits[k] = c]]

\* a table that lacks the Gujarati digits
DevaToEnglish_DevanagariOnly(text) ==
    [k \in 1..Len(text) |->
        IF \E j \in 1..10 : DevanagariDigits[j] = text[k]
        THEN DEVA_TO_ENG[text[k]] ELSE text[k]]

\* "".join(self.DEVA_TO_ENG.get(c, c) for c in str(text))
DevaToEnglish(text) ==
    [k \in 1..Len(text) |->
        IF text[k] \in DOMAIN DEVA_TO_ENG THEN DEVA_TO_ENG[text[k]]
        ELSE text[k]]

(***************************************************************************)
(* save_to_markdown, _get_entry_filename and _create_readme. A file path   *)
(* is the sequence of its components below the book directory; the path    *)
(* the index lists is a string. "entry_", "adhyaya_", "pada_", "sutra_"    *)
(* and ".md" are written as one token each.                                *)
(***************************************************************************)

\* a padding that leaves the text as it is
ZFill_NoPad(t, width) == t

\* t.zfill(width)
ZFill(t, width) ==
    IF Len(t) >= width THEN t
    ELSE LET zeros == [k \in 1..(width - Len(t)) |-> "0"] IN
         IF t # <<>> /\ t[1] \in {"+", "-"} THEN <<t[1]>> \o zeros \o Tail(t)
         ELSE zeros \o t

\* t.isdigit(), over the characters of the model
IsDigit(t) == t # <<>> /\ \A k \in 1..Len(t) : t[k] \in Digits

\* config.get('organize_by', 'flat')
OrganizeBy(book_type) ==
    IF book_type \in BookNames THEN BOOK_CONFIGS[book_type].organize_by
    ELSE "flat"

\* entry.metadata.get(key), None when the key is absent
MetaGet(metadata, key) ==
    IF \E kv \in metadata : kv[1] = key
    THEN Some((CHOOSE kv \in metadata : kv[1] = key)[2])
    ELSE None

GetEntryFilename(entry) ==
    LET eng_num == DevaToEnglish(entry.number)
        parts == Split(eng_num, ".")
        name == IF Contains(eng_num, <<".">>)
                THEN Join([k \in 1..Len(parts) |-> ZFill(parts[k], 2)], <<"_">>)
                ELSE IF IsDigit(eng_num) THEN ZFill(eng_num, 2)
                ELSE eng_num
    IN  <<"entry_">> \o name \o <<".md">>

\* the file save_to_markdown writes for the entry, below book_dir
FilePath(book_type, entry) ==
    IF OrganizeBy(book_type) = "adhyaya_pada" /\ Contains(entry.number, <<".">>)
    THEN LET parts == Split(DevaToEnglish(entry.number), ".") IN
         IF Len(parts) >= 3
         THEN <<<<"adhyaya_">> \o parts[1],
                <<"pada_">> \o parts[2],
                <<"sutra_">> \o ZFill(parts[3], 3) \o <<".md">>>>
         ELSE <<GetEntryFilename(entry)>>
    ELSE <<GetEntryFilename(entry)>>

\* file_path.relative_to(book_dir), as a string
RelativeTo(path) == Join(path, <<"/">>)

\* an index that lists every entry under its flat file name
ReadmePath_FlatOnly(book_type, entry) == GetEntryFilename(entry)

\* the filepath _create_readme lists for the entry
ReadmePath(book_type, entry) ==
    LET eng_num == DevaToEnglish(entry.number)
        organize_by == OrganizeBy(book_type)
        adhyaya == MetaGet(entry.metadata, "adhyaya")
        pada == MetaGet(entry.metadata, "pada")
        sutra == MetaGet(entry.metadata, "sutra")
    IN  IF organize_by = "adhyaya_pada" /\ adhyaya # None /\ adhyaya[1] # <<>>
        THEN <<"adhyaya_">> \o adhyaya[1] \o <<"/", "pada_">>
             \o (IF pada # None THEN pada[1] ELSE <<"1">>)
             \o <<"/", "sutra_">>
             \o ZFill(IF sutra # None THEN sutra[1] ELSE <<"1">>, 3)
             \o <<".md">>
        ELSE IF Contains(eng_num, <<".">>) /\ organize_by = "adhyaya_pada"
        THEN LET parts == Split(eng_num, ".") IN
             IF Len(parts) >= 3
             THEN <<"adhyaya_">> \o parts[1] \o <<"/", "pada_">> \o parts[2]
                  \o <<"/", "sutra_">> \o ZFill(parts[3], 3) \o <<".md">>
             ELSE GetEntryFilename(entry)
        ELSE GetEntryFilename(entry)

\* the entries of the book handed to save_to_markdown: what scrape_book
\* builds, whose metadata holds at most the kaumudi reference
MaxEntries == 2

NumberTexts ==
    {<<"1", ".", "2", ".", "1", "5">>,
     <<"1", ".", "2", ".", "3">>,
     <<"1", ".", "2", ".", "0", "3">>,
     <<"D1", ".", "D2", ".", "G3">>,
     <<"1", ".", "2", ".", "3", ".", "4">>,
     <<"1", ".", "2">>,
     <<"7">>,
     <<"D7">>,
     <<"1", "2", "3">>,
     <<"x">>,
     <<>>}

BookEntry(number, metadata) ==
    [number |-> number, title |-> <<"t">>, url |-> BASE_URL, content |-> <<>>,
     sections |-> <<>>, notes |-> <<>>, metadata |-> metadata]

BookEntries ==
    {BookEntry(n, {}) : n \in NumberTexts}
    \cup {BookEntry(<<"1", ".", "1", ".", "1">>,
                    {<<"kaumudi", <<"kaumudi", "7">>>>})}

SaveBooks == {"shivasutra", "sutraani", "dhatu"}

InitSave ==
    /\ entry_point = "save_to_markdown"
    /\ pc = "readme"
    /\ outcome = "none"
    /\ limit = 0
    /\ driver = "None"
    /\ sessions = 0
    /\ present = 0
    /\ driver_scrolls = 0
    /\ fetched = <<>>
    /\ launches = 0
    /\ navigations = 0
    /\ max_scrolls = 0
    /\ last_count = 0
    /\ scroll_count = 0
    /\ no_change_count = 0
    /\ iters = 0
    /\ prev_measured = 0
    /\ since_increase = 0
    /\ decreased = FALSE
    /\ book_name \in SaveBooks
    /\ listing = <<>>
    /\ entries_data = <<>>
    /\ i = 0
    /\ entries \in SeqsUpTo(BookEntries, MaxEntries)
    /\ details = <<>>
    /\ page = None
    /\ detail = None
    /\ arg = <<>>
    /\ result = <<>>
    /\ again = <<>>
    /\ written = <<>>
    /\ index_paths = <<>>

\* the loop over the entries at index idx: write the next file or return
SaveLoopHead(idx) ==
    /\ i' = idx
    /\ IF idx <= Len(entries)
       THEN pc' = "write" /\ UNCHANGED outcome
       ELSE pc' = "done" /\ outcome' = "returned"

\* README.md is built and written, then the loop over the entries begins
SaveReadme ==
    /\ pc = "readme"
    /\ index_paths' = [k \in 1..Len(entries) |->
                          ReadmePath(book_name, entries[k])]
    /\ SaveLoopHead(1)
    /\ UNCHANGED <<entry_point, objVars, browserVars, envHist, scrollVars,
                   scrollHist, book_name, listing, entries_data, entries,
                   details, detailVars, textVars, written>>

\* one pass of the loop: the file of entry i is written
SaveEntryFile ==
    /\ pc = "write"
    /\ written' = Append(written, FilePath(book_name, entries[i]))
    /\ SaveLoopHead(i + 1)
    /\ UNCHANGED <<entry_point, objVars, browserVars, envHist, scrollVars,
                   scrollHist, book_name, listing, entries_data, entries,
                   details, detailVars, textVars, index_paths>>

NextSave ==
    \/ SaveReadme
    \/ SaveEntryFile

SpecSave == InitSave /\ [][NextSave]_vars

(***************************************************************************)
(* A direct call of _deva_to_english(text), and a second call on what the  *)
(* first returned.                                                         *)
(***************************************************************************)
MaxDigits == 3

DigitAlphabet == {"1", "0", "D1", "D9", "G0", "G7", ".", "x"}

InitDigits ==
    /\ entry_point = "_deva_to_english"
    /\ pc = "call"
    /\ outcome = "none"
    /\ limit = 0
    /\ driver = "None"
    /\ sessions = 0
    /\ present = 0
    /\ driver_scrolls = 0
    /\ fetched = <<>>
    /\ launches = 0
    /\ navigations = 0
    /\ max_scrolls = 0
    /\ last_count = 0
    /\ scroll_count = 0
    /\ no_change_count = 0
    /\ iters = 0
    /\ prev_measured = 0
    /\ since_increase = 0
    /\ decreased = FALSE
    /\ book_name = "none"
    /\ listing = <<>>
    /\ entries_data = <<>>
    /\ i = 0
    /\ entries = <<>>
    /\ details = <<>>
    /\ page = None
    /\ detail = None
    /\ arg \in SeqsUpTo(DigitAlphabet, MaxDigits)
    /\ result = <<>>
    /\ again = <<>>
    /\ written = <<>>
    /\ index_paths = <<>>

DevaToEnglishCall ==
    /\ pc = "call"
    /\ result' = DevaToEnglish(arg)
    /\ pc' = "recall"
    /\ UNCHANGED <<entry_point, outcome, objVars, browserVars, envHist,
                   scrollVars, scrollHist, bookVars, detailVars, arg, again,
                   saveVars>>

DevaToEnglishAgain ==
    /\ pc = "recall"
    /\ again' = DevaToEnglish(result)
    /\ pc' = "done"
    /\ outcome' = "returned"
    /\ UNCHANGED <<entry_point, objVars, browserVars, envHist, scrollVars,
                   scrollHist, bookVars, detailVars, arg, result, saveVars>>

NextDigits ==
    \/ DevaToEnglishCall
    \/ DevaToEnglishAgain

SpecDigits == InitDigits /\ [][NextDigits]_vars

(***************************************************************************)
(* A direct call of _html_to_markdown(html), and a second call on the text *)
(* the first returned.                                                     *)
(***************************************************************************)
MaxNodes == 3

ArrowText == <<"a", " ", Arrow, " ", "b", " ", Arrow, " ", "c">>

MarkupNodes ==
    {TextNode(<<"a">>),
     TextNode(ArrowText),
     TextNode(<<Arrow, " ", "b">>),
     TextNode(<<">", " ", "a", " ", Arrow, " ", "b">>),
     Element("prakriya", <<"q">>),
     Element("prakriya", <<"q", " ", Arrow, " ", "r">>),
     Element("div", <<"d">>),
     Element("header", <<"h">>),
     Element("bold", <<"x">>),
     Element("br", <<>>),
     Element("hr", <<>>)}

Fragments == SeqsUpTo(MarkupNodes, MaxNodes)

\* BeautifulSoup(html, 'html.parser') of a text that holds no tag
ParseText(t) == IF t = <<>> THEN <<>> ELSE <<TextNode(t)>>

InitMarkdown ==
    /\ entry_point = "_html_to_markdown"
    /\ pc = "call"
    /\ outcome = "none"
    /\ limit = 0
    /\ driver = "None"
    /\ sessions = 0
    /\ present = 0
    /\ driver_scrolls = 0
    /\ fetched = <<>>
    /\ launches = 0
    /\ navigations = 0
    /\ max_scrolls = 0
    /\ last_count = 0
    /\ scroll_count = 0
    /\ no_change_count = 0
    /\ iters = 0
    /\ prev_measured = 0
    /\ since_increase = 0
    /\ decreased = FALSE
    /\ book_name = "none"
    /\ listing = <<>>
    /\ entries_data = <<>>
    /\ i = 0
    /\ entries = <<>>
    /\ details = <<>>
    /\ page = None
    /\ detail = None
    /\ arg \in Fragments
    /\ result = <<>>
    /\ again = <<>>
    /\ written = <<>>
    /\ index_paths = <<>>

HtmlToMarkdownCall ==
    /\ pc = "call"
    /\ result' = HtmlToMarkdown(arg)
    /\ pc' = "recall"
    /\ UNCHANGED <<entry_point, outcome, objVars, browserVars, envHist,
                   scrollVars, scrollHist, bookVars, detailVars, arg, again,
                   saveVars>>

HtmlToMarkdownAgain ==
    /\ pc = "recall"
    /\ again' = HtmlToMarkdown(ParseText(result))
    /\ pc' = "done"
    /\ outcome' = "returned"
    /\ UNCHANGED <<entry_point, objVars, browserVars, envHist, scrollVars,
                   scrollHist, bookVars, detailVars, arg, result, saveVars>>

NextMarkdown ==
    \/ HtmlToMarkdownCall
    \/ HtmlToMarkdownAgain

SpecMarkdown == InitMarkdown /\ [][NextMarkdown]_vars

(***************************************************************************)
(* Properties.                                                             *)
(***************************************************************************)
Min(a, b) == IF a <= b THEN a ELSE b

\* the summaries of the selected items that parse, in document order
AcceptedSummaries(soup, book_type) ==
    LET items == SelectItems(soup, book_type)
        parsed == [k \in 1..Len(items) |-> ParseSingleEntry(items[k], book_type)]
        ok == SelectSeq(parsed, LAMBDA o : o # None)
    IN  [k \in 1..Len(ok) |-> ok[k][1]]

\* how many summaries the cap lets through, of n
Capped(n) == IF limit = 0 THEN n ELSE Min(limit, n)

Returned == pc = "done" /\ outcome = "returned"

\* C1: when scrape_book exits, by return or by exception, the browser session
\* it opened has been quit and self.driver is None; no session stays open.
C1_SessionReleased ==
    /\ sessions <= 1
    /\ pc = "done" => (driver = "None" /\ sessions = 0)

\* an exception during pagination, after the driver was initialised
C1_Witness ==
    /\ pc = "done"
    /\ outcome = "DriverError"
    /\ launches = 1
    /\ driver = "None"
    /\ sessions = 0

\* C2 (safety part): no more than max_scrolls scroll commands and passes; and
\* while the measured count has never gone down, the loop is over by the
\* fifth measurement after the last increase.
C2_Bounded ==
    /\ driver_scrolls <= max_scrolls
    /\ iters <= max_scrolls
    /\ (~decreased) => /\ since_increase <= StallThreshold
                       /\ (since_increase = StallThreshold => pc # "scroll")

\* C2: _scroll_to_load_all terminates for every sequence of measured counts,
\* never issues more than max_scrolls scroll commands, and stops within 5
\* iterations of the last increase when the count then stays constant.
C2_PaginationTerminates == [](C2_Bounded) /\ <>(pc # "scroll")

\* the count grew to 2, stayed, and the loop left on the stall, below the cap
C2_Witness ==
    /\ Returned
    /\ limit = 0
    /\ ~decreased
    /\ since_increase = StallThreshold
    /\ last_count = 2
    /\ iters < max_scrolls

\* C3: a detail page that fails to load does not end the run: the entry is
\* made at its listing position from the summary (url, notes, metadata) with
\* empty content and sections, and every later detail page is still fetched.
C3_FailedDetailKept ==
    /\ Len(entries) = Len(details)
    /\ Len(fetched) = Len(details)
    /\ \A k \in 1..Len(details) :
           details[k] = None =>
               /\ k <= Len(entries_data)
               /\ entries[k].url = entries_data[k].url
               /\ entries[k].notes = entries_data[k].notes
               /\ entries[k].metadata = entries_data[k].metadata
               /\ entries[k].content = <<>>
               /\ entries[k].sections = <<>>
    /\ (pc = "done" /\ details # <<>>) =>
           /\ outcome = "returned"
           /\ Len(fetched) = Capped(Len(entries_data))
           /\ \A k \in 1..Len(fetched) : fetched[k] = entries_data[k].url

\* the first detail page failed, the second was fetched and parsed
C3_Witness ==
    /\ Returned
    /\ Len(details) = 2
    /\ details[1] = None
    /\ details[2] # None
    /\ entries[1].metadata # {}
    /\ entries[1].notes # <<>>
    /\ entries[2].content # <<>>

C5_NumberNonEmpty ==
    Returned =>
        \A k \in 1..Len(entries) :
            /\ entries[k].number # <<>>
            /\ entries_data[k].number = <<>> =>
                   entries[k].number =
                       IF details[k] # None /\ details[k][1].number # <<>>
                       THEN details[k][1].number
                       ELSE IntToStr(k)

\* C6: with a cap L the summaries are the first min(L, accepted) accepted
\* items in document order, the cap is checked before each detail fetch, so
\* there are at most L fetches and L entries, in listing order, one entry per
\* fetched summary; with no cap every accepted item is fetched exactly once.
C6_CapRespected ==
    (pc = "fetch" \/ Returned) =>
        LET acc == AcceptedSummaries(listing, book_name)
            cap == Capped(Len(acc))
        IN  /\ entries_data = SubSeq(acc, 1, cap)
            /\ Len(fetched) <= cap
            /\ Len(entries) = Len(fetched)
            /\ \A k \in 1..Len(fetched) :
                   /\ fetched[k] = acc[k].url
                   /\ entries[k].url = acc[k].url
            /\ navigations = 1 + Len(fetched)
            /\ Returned => Len(fetched) = cap

\* two accepted items, a cap of one: one fetch, one entry
C6_Witness ==
    /\ Returned
    /\ limit = 1
    /\ Len(AcceptedSummaries(listing, book_name)) = 2
    /\ Len(fetched) = 1
    /\ Len(entries) = 1

\* a segment that reads as an integer
IntegerText(s) == s # <<>> /\ \A k \in 1..Len(s) : s[k] \in Digits

\* the path is /sutraani/A/P/S with A, P, S integers (a closing slash aside)
WellFormedSutraHref(h) ==
    LET core == IF h # <<>> /\ h[Len(h)] = "/" THEN SubSeq(h, 1, Len(h) - 1)
                ELSE h
        n == Len(core)
    IN  /\ n >= 4
        /\ SubSeq(core, 1, 3) = SutraPrefix
        /\ \E b, c \in 4..n :
               /\ b < c
               /\ core[b] = "/"
               /\ core[c] = "/"
               /\ IntegerText(SubSeq(core, 4, b - 1))
               /\ IntegerText(SubSeq(core, b + 1, c - 1))
               /\ IntegerText(SubSeq(core, c + 1, n))

\* C7: for sutraani, a selected listing link whose path is not 4 segments
\* with the last three integers is never in the result, and one whose path is
\* such is in the result, in order, as long as the cap is not reached.
C7_SegmentedLinks ==
    (pc = "done" /\ book_name = "sutraani") =>
        LET items == SelectItems(listing, "sutraani")
            good(k) == WellFormedSutraHref(items[k].href[1])
            ahead(k) == Cardinality({j \in 1..(k - 1) : good(j)})
        IN  \A k \in 1..Len(items) :
                IF good(k)
                THEN (limit = 0 \/ ahead(k) < limit) =>
                         /\ ahead(k) + 1 <= Len(entries_data)
                         /\ entries_data[ahead(k) + 1].url
                                = BASE_URL \o items[k].href[1]
                ELSE \A j \in 1..Len(entries_data) :
                         entries_data[j].url # BASE_URL \o items[k].href[1]

\* a link of two segments dropped, then a link of four integer segments kept
C7_Witness ==
    /\ pc = "done"
    /\ book_name = "sutraani"
    /\ Len(SelectItems(listing, "sutraani")) = 2
    /\ ~WellFormedSutraHref(SelectItems(listing, "sutraani")[1].href[1])
    /\ WellFormedSutraHref(SelectItems(listing, "sutraani")[2].href[1])
    /\ Len(entries_data) = 1

\* the href of the anchor of a selected item: the item's own when the item is
\* an anchor, its first anchor's otherwise
ItemHref(e) == IF e.tag = "a" THEN e.href ELSE e.link

UsableItem(e) ==
    /\ "bg-light" \notin e.class
    /\ ItemHref(e) # None
    /\ ItemHref(e)[1] \notin {<<>>, <<"#">>}

\* C8 as stated: for every book other than sutraani, dhatu included, a
\* selected listing item yields a summary if and only if it has no bg-light
\* marker and its anchor gives a usable href.
C8_FlatItemsYield ==
    (pc = "done" /\ book_name # "sutraani" /\ limit = 0) =>
        LET items == SelectItems(listing, book_name)
            usable == SelectSeq(items, UsableItem)
        IN  /\ Len(entries_data) = Len(usable)
            /\ \A k \in 1..Len(usable) :
                   \E t \in {<<>>, <<"/">>} :
                       \/ entries_data[k].url = BASE_URL \o t \o ItemHref(usable[k])[1]
                       \/ entries_data[k].url = ItemHref(usable[k])[1]

\* C9: every value of the sections mapping of a result is non-blank, and it
\* is stored under a non-blank heading.
C9_SectionsNonBlank ==
    detail # None =>
        \A k \in 1..Len(detail[1].sections) :
            /\ Strip(detail[1].sections[k][1]) # <<>>
            /\ Strip(detail[1].sections[k][2]) # <<>>

\* a commentary region with a heading and blank transformed content, and one
\* with no heading text, on a page that gives a section
C9_Witness ==
    /\ pc = "done"
    /\ page # None
    /\ detail # None
    /\ Len(detail[1].sections) >= 1
    /\ Len(page[1].regions) = 2
    /\ page[1].regions[1].id = "kashika"
    /\ page[1].regions[1].heading = Some(<<"H">>)
    /\ page[1].regions[1].body # None
    /\ Strip(HtmlToMarkdown(page[1].regions[1].body[1])) = <<>>
    /\ page[1].regions[2].id = "kashika"
    /\ page[1].regions[2].heading = Some(<<" ">>)

\* the page has no sutrartha explanation, no short-meaning element and no
\* bold element: nothing the extractor reads the content from
LacksPrimary(pg) ==
    /\ \A k \in 1..Len(pg.regions) :
           /\ pg.regions[k].id = "sutrartha" => pg.regions[k].body = None
           /\ pg.regions[k].body # None =>
                  \A j \in 1..Len(pg.regions[k].body[1]) :
                      pg.regions[k].body[1][j].kind # "fwbold"
    /\ pg.short_elem = None
    /\ pg.bold_elem = None

\* C10 as stated: a page that loads and lacks every primary-explanation
\* region gives a result whose content and sections are both empty.
C10_EmptyResult ==
    (pc = "done" /\ page # None /\ LacksPrimary(page[1])) =>
        /\ detail # None
        /\ detail[1].content = <<>>
        /\ detail[1].sections = <<>>

\* C10, amended: such a page gives a result (not None) whose content is
\* empty; its sections hold only the summary and the headed commentary
\* regions of the page, and are empty when the page has neither a summary
\* region nor a commentary region.
C10_EmptyContent ==
    (pc = "done" /\ page # None /\ LacksPrimary(page[1])) =>
        /\ detail # None
        /\ detail[1].content = <<>>
        /\ (page[1].summary_region = None /\ page[1].regions = <<>>) =>
               detail[1].sections = <<>>
        /\ \A k \in 1..Len(detail[1].sections) :
               \/ /\ detail[1].sections[k][1] = SummaryName
                  /\ page[1].summary_region # None
               \/ \E r \in 1..Len(page[1].regions) :
                      /\ page[1].regions[r].heading # None
                      /\ page[1].regions[r].body # None
                      /\ page[1].regions[r].id # "sutrartha"
                      /\ detail[1].sections[k][1]
                             = Strip(page[1].regions[r].heading[1])

\* no primary explanation, yet a commentary section: content empty, sections not
C10_Witness ==
    /\ pc = "done"
    /\ page # None
    /\ LacksPrimary(page[1])
    /\ page[1].regions # <<>>
    /\ detail # None
    /\ detail[1].content = <<>>
    /\ detail[1].sections # <<>>

PadZero(t, width) ==
    IF Len(t) >= width THEN t ELSE [k \in 1..(width - Len(t)) |-> "0"] \o t

\* the places of the dots of a number
DotPlaces(t) == {k \in 1..Len(t) : t[k] = "."}

\* the number is A.P.S, each part of ASCII digits
ThreeDigitParts(t) ==
    /\ Cardinality(DotPlaces(t)) = 2
    /\ \A k \in 1..Len(t) : t[k] \in Digits \cup {"."}
    /\ t[1] # "." /\ t[Len(t)] # "."
    /\ \A k \in DotPlaces(t) : k + 1 \notin DotPlaces(t)

PartA(t) == SubSeq(t, 1, (CHOOSE k \in DotPlaces(t) :
                              \A h \in DotPlaces(t) : k <= h) - 1)
PartP(t) == SubSeq(t, (CHOOSE k \in DotPlaces(t) :
                           \A h \in DotPlaces(t) : k <= h) + 1,
                      (CHOOSE k \in DotPlaces(t) :
                           \A h \in DotPlaces(t) : k >= h) - 1)
PartS(t) == SubSeq(t, (CHOOSE k \in DotPlaces(t) :
                           \A h \in DotPlaces(t) : k >= h) + 1, Len(t))

\* the flat name of a number of fewer than three parts, of ASCII digits
FlatNameOfShort(t) ==
    IF DotPlaces(t) = {} THEN <<"entry_">> \o PadZero(t, 2) \o <<".md">>
    ELSE LET d == CHOOSE k \in DotPlaces(t) : TRUE
         IN  <<"entry_">> \o PadZero(SubSeq(t, 1, d - 1), 2) \o <<"_">>
             \o PadZero(SubSeq(t, d + 1, Len(t)), 2) \o <<".md">>

\* C11: a number A.P.S of digit parts is written to
\* adhyaya_A/pada_P/sutra_<S padded to 3>.md under the hierarchical mode and
\* to entry_<A>_<P>_<S>.md, each part padded to 2, under the flat mode; a
\* number of fewer than three parts gets the flat name under either mode.
C11_PathDerivation ==
    \A k \in 1..Len(written) :
        LET n == entries[k].number IN
        /\ ThreeDigitParts(n) =>
               written[k] =
                   IF BOOK_CONFIGS[book_name].organize_by = "adhyaya_pada"
                   THEN <<<<"adhyaya_">> \o PartA(n),
                          <<"pada_">> \o PartP(n),
                          <<"sutra_">> \o PadZero(PartS(n), 3) \o <<".md">>>>
                   ELSE <<<<"entry_">> \o PadZero(PartA(n), 2) \o <<"_">>
                          \o PadZero(PartP(n), 2) \o <<"_">>
                          \o PadZero(PartS(n), 2) \o <<".md">>>>
        /\ (/\ Cardinality(DotPlaces(n)) < 2
            /\ n # <<>>
            /\ \A j \in 1..Len(n) : n[j] \in Digits \cup {"."}) =>
               written[k] = <<FlatNameOfShort(n)>>

\* "1.2.15" saved under the hierarchical mode, "1.2" after it
C11_Witness ==
    /\ pc = "done"
    /\ book_name = "sutraani"
    /\ Len(written) = 2
    /\ entries[1].number = <<"1", ".", "2", ".", "1", "5">>
    /\ written[1] = <<<<"adhyaya_", "1">>, <<"pada_", "2">>,
                      <<"sutra_", "0", "1", "5", ".md">>>>
    /\ entries[2].number = <<"1", ".", "2">>
    /\ written[2] = <<<<"entry_", "0", "1", "_", "0", "2", ".md">>>>

\* one to three dot-separated parts of ASCII digits, none with a leading zero
WellFormedNumber(t) ==
    /\ t # <<>>
    /\ \A k \in 1..Len(t) : t[k] \in Digits \cup {"."}
    /\ t[1] # "." /\ t[Len(t)] # "."
    /\ \A k \in DotPlaces(t) : k + 1 \notin DotPlaces(t)
    /\ Cardinality(DotPlaces(t)) <= 2
    /\ \A k \in 1..Len(t) :
           (t[k] = "0" /\ (k = 1 \/ t[k - 1] = ".")) =>
               (k = Len(t) \/ t[k + 1] = ".")

\* C12 (first part): two entries of a book with distinct well-formed numbers
\* are written to distinct files.
C12_WellFormedDistinct ==
    \A j, k \in 1..Len(written) :
        (/\ WellFormedNumber(entries[j].number)
         /\ WellFormedNumber(entries[k].number)
         /\ entries[j].number # entries[k].number) =>
            written[j] # written[k]

\* C12 as stated: distinct well-formed numbers give distinct paths, and an
\* entry whose number is malformed or empty gets a path of its own, from its
\* positional index: no two entries of a book are written to the same file.
C12_NoTwoEntriesOneFile ==
    /\ C12_WellFormedDistinct
    /\ \A j, k \in 1..Len(written) :
           (j # k /\ ~WellFormedNumber(entries[j].number)) =>
               written[j] # written[k]

\* the value of a Devanagari or Gujarati digit, as an ASCII digit
DigitValue ==
    [c \in {"D1", "D9", "G0", "G7"} |->
        CASE c = "D1" -> "1" [] c = "D9" -> "9" [] c = "G0" -> "0"
          [] c = "G7" -> "7"]

\* C13: _deva_to_english replaces each Devanagari and Gujarati digit by the
\* ASCII digit of its value and leaves every other character as it is,
\* position by position; the length is kept, and a second run changes nothing.
C13_DigitNormalization ==
    /\ pc \in {"recall", "done"} =>
           /\ Len(result) = Len(arg)
           /\ \A k \in 1..Len(arg) :
                  result[k] = IF arg[k] \in DOMAIN DigitValue
                              THEN DigitValue[arg[k]] ELSE arg[k]
    /\ pc = "done" => again = result

\* a mixed-script input: a Devanagari digit, a dot, a Gujarati digit
C13_Witness ==
    /\ pc = "done"
    /\ arg = <<"D1", ".", "G7">>
    /\ result = <<"1", ".", "7">>
    /\ again = result

\* C14 as stated: _html_to_markdown run on its own output returns that
\* output unchanged.
C14_Idempotent == pc = "done" => again = result

\* the places of the arrows of a text, and the text between two places
ArrowPlaces(t) == {k \in 1..Len(t) : t[k] = Arrow}

\* the pieces of a text between its arrows, from place lo on
RECURSIVE PiecesFrom(_, _)
PiecesFrom(t, lo) ==
    LET later == {k \in ArrowPlaces(t) : k >= lo} IN
    IF later = {} THEN <<SubSeq(t, lo, Len(t))>>
    ELSE LET nxt == CHOOSE k \in later : \A h \in later : k <= h
         IN  <<SubSeq(t, lo, nxt - 1)>> \o PiecesFrom(t, nxt + 1)

\* the lines expected of a segment: each non-blank piece trimmed, the first
\* piece bare, every later one after an arrow and a space
StepLines(t) ==
    LET pieces == PiecesFrom(t, 1)
        lines == [k \in 1..Len(pieces) |->
                     IF k = 1 THEN Strip(pieces[k])
                     ELSE <<Arrow, " ">> \o Strip(pieces[k])]
        kept == {k \in 1..Len(pieces) : Strip(pieces[k]) # <<>>}
    IN  SelectSeq([k \in 1..Len(pieces) |->
                      IF k \in kept THEN lines[k] ELSE <<>>],
                  LAMBDA l : l # <<>>)

ParagraphBreak == <<"\n", "\n">>

IsArrowText(node) ==
    /\ node.kind = "text"
    /\ ArrowPlaces(node.text) # {}
    /\ node.text[1] # ">"

IsQuote(node) == node.kind = "prakriya" /\ Strip(node.text) # <<>>

\* C15: a segment that holds an arrow and does not start with a block-quote
\* marker comes out as its steps in order, the first bare, each later one
\* after an arrow, one per line with a blank line between; a segment that
\* starts with a block-quote marker is not split.
C15_ArrowSteps ==
    pc \in {"recall", "done"} =>
        /\ (Len(arg) = 1 /\ IsArrowText(arg[1])) =>
               result = Join(StepLines(arg[1].text), ParagraphBreak)
        /\ (Len(arg) = 1 /\ IsQuote(arg[1])) =>
               result = <<">", " ">> \o Strip(arg[1].text)
        /\ (Len(arg) = 1 /\ arg[1].kind = "text" /\ arg[1].text[1] = ">") =>
               result = Strip(arg[1].text)
        /\ (Len(arg) = 2 /\ IsQuote(arg[1]) /\ IsArrowText(arg[2])) =>
               result = <<">", " ">> \o Strip(arg[1].text) \o ParagraphBreak
                        \o Join(StepLines(arg[2].text), ParagraphBreak)
        /\ (Len(arg) = 2 /\ IsArrowText(arg[1]) /\ IsQuote(arg[2])) =>
               result = Join(StepLines(arg[1].text), ParagraphBreak)
                        \o ParagraphBreak \o <<">", " ">> \o Strip(arg[2].text)

\* a quoted derivation left whole, then "a -> b -> c" as three lines
C15_Witness ==
    /\ pc = "done"
    /\ Len(arg) = 2
    /\ arg[1] = Element("prakriya", <<"q", " ", Arrow, " ", "r">>)
    /\ arg[2] = TextNode(ArrowText)
    /\ result = <<">", " ", "q", " ", Arrow, " ", "r", "\n", "\n",
                  "a", "\n", "\n", Arrow, " ", "b", "\n", "\n",
                  Arrow, " ", "c">>

\* how many paragraph breaks a text holds
RECURSIVE ParagraphBreaks(_)
ParagraphBreaks(t) ==
    IF Len(t) < 2 THEN 0
    ELSE IF SubSeq(t, 1, 2) = ParagraphBreak
    THEN 1 + ParagraphBreaks(SubSeq(t, 3, Len(t)))
    ELSE ParagraphBreaks(Tail(t))

IsDivision(node) == node.kind = "div" /\ Strip(node.text) # <<>>

IsPlainText(node) ==
    /\ node.kind = "text"
    /\ Strip(node.text) # <<>>
    /\ ArrowPlaces(node.text) = {}

\* the fragment holds one quotation block and one paragraph-spaced division,
\* and beside them only plain texts, no two of them adjacent
QuoteAndDivision(frag) ==
    /\ Cardinality({k \in 1..Len(frag) : IsQuote(frag[k])}) = 1
    /\ Cardinality({k \in 1..Len(frag) : IsDivision(frag[k])}) = 1
    /\ \A k \in 1..Len(frag) :
           IsQuote(frag[k]) \/ IsDivision(frag[k]) \/ IsPlainText(frag[k])
    /\ \A k \in 1..(Len(frag) - 1) :
           ~(IsPlainText(frag[k]) /\ IsPlainText(frag[k + 1]))

\* the paragraph expected of a node of such a fragment
ParagraphOf(node) ==
    IF node.kind = "prakriya" THEN <<">", " ">> \o Strip(node.text)
    ELSE Strip(node.text)

C17_StallCounterWhileNotDecreasing ==
    (iters > 0 /\ ~decreased) => no_change_count = since_increase

\* C17: after each measurement the stall counter equals the number of
\* consecutive most recent iterations whose measured count did not increase
\* over the previous one (the first compared with 0), so it is reset only by
\* an increase, and five such iterations in a row end the loop.
C17_StallCounter ==
    /\ iters > 0 => no_change_count = since_increase
    /\ since_increase >= StallThreshold => pc # "scroll"

(***************************************************************************)
(* C18: the short-meaning element as the content of last resort            *)
(***************************************************************************)

\* the page loaded, has no sutrartha explanation and has a short-meaning element
ShortMeaningOnly(pg) == Sutrartha(pg) = None /\ pg.short_elem # None

\* What the extractor returns for such a page: the text of the element
\* between emphasis markers.
C18_EmphasizedShortMeaning ==
    (pc = "done" /\ page # None /\ ShortMeaningOnly(page[1])) =>
        /\ detail # None
        /\ detail[1].content
               = <<"*", "*">> \o GetTextStrip(page[1].short_elem[1]) \o <<"*", "*">>

\* C18: when a detail page has no primary explanation region but has a
\* short-meaning style element, the content returned is the plain text of
\* that element, with no emphasis markers around it.
C18_PlainShortMeaning ==
    (pc = "done" /\ page # None /\ ShortMeaningOnly(page[1])) =>
        /\ detail # None
        /\ detail[1].content = GetTextStrip(page[1].short_elem[1])

(***************************************************************************)
(* C19: the index lists each entry at the path of its file                 *)
(***************************************************************************)

\* C19: for every entry of a book produced by scrape_book, the path the
\* index document lists for it is the path, relative to the book directory,
\* of the file save_to_markdown writes for it, under every organization
\* mode and for numbers in ASCII or other digits, with or without dots.
C19_IndexMatchesFiles ==
    /\ Len(written) <= Len(index_paths)
    /\ \A k \in 1..Len(written) : index_paths[k] = RelativeTo(written[k])
    /\ pc = "done" => Len(written) = Len(entries)

\* a hierarchical book with a dotted number in Devanagari and Gujarati
\* digits and a number without dots: both listed where they were written
C19_Witness ==
    /\ pc = "done"
    /\ book_name = "sutraani"
    /\ Len(entries) = 2
    /\ entries[1].number = <<"D1", ".", "D2", ".", "G3">>
    /\ entries[2].number = <<"D7">>
    /\ written = <<<<<<"adhyaya_", "1">>, <<"pada_", "2">>,
                     <<"sutra_", "0", "0", "3", ".md">>>>,
                   <<<<"entry_", "0", "7", ".md">>>>>>
    /\ index_paths = <<<<"adhyaya_", "1", "/", "pada_", "2", "/",
                         "sutra_", "0", "0", "3", ".md">>,
                       <<"entry_", "0", "7", ".md">>>>

====
